---- MODULE Spec2Model ----
(***************************************************************************)
(* Model of homework_bot (src/homework.py, src/exceptions.py): a loop that *)
(* polls the homework-status API, turns the first homework of the answer   *)
(* into a message, sends it to a Telegram chat when it differs from the    *)
(* last one sent, and sleeps RETRY_PERIOD seconds before the next poll.   *)
(*                                                                         *)
(* Strings are sequences of ASCII chunks (concatenation is \o, the empty   *)
(* string is <<>>); the Russian texts of the source are rendered in        *)
(* English.  A Python dict is a record holding the set of keys it has and  *)
(* one field per key the program reads (a default value when the key is    *)
(* absent).  A call that may raise returns a record [exc, value].          *)
(***************************************************************************)
EXTENDS Integers, Sequences, FiniteSets, TLC

\* ------------------------------------------------------------------ bounds
\* Number of polls a behaviour of the model may issue.
MaxCycles == 3
\* The API's current_date values are 1..MaxDate.
MaxDate == 2
\* Longest homeworks list of a payload.
MaxHw == 2

\* ------------------------------------------------------- program constants
RETRY_PERIOD == 600

HOMEWORK_VERDICTS ==
    [approved  |-> "Work checked: the reviewer liked everything. Hooray!",
     reviewing |-> "Work taken for checking by the reviewer.",
     rejected  |-> "Work checked: the reviewer has remarks."]

\* -------------------------------------------------------------- exceptions
\* An exception is the name of its class (exceptions.py, or a built-in one)
\* and the text it was built with.
NoExc == [kind |-> "none", text |-> <<>>]

Exc(kind, text) == [kind |-> kind, text |-> text]

Raise(e) == [exc |-> e, value |-> <<>>]

Return(v) == [exc |-> NoExc, value |-> v]

\* ------------------------------------------------------------------ inputs
\* The value of an environment variable as os.getenv gives it: None when the
\* variable is absent, '' when it is empty, a non-empty string otherwise.
EnvValues == {"set", "", "None"}

EnvVars == {"PRACTICUM_TOKEN", "TELEGRAM_TOKEN", "TELEGRAM_CHAT_ID"}

\* int(time.time()) at start-up.
StartTime == 0

Dates == 1 .. MaxDate

Names == {"hw1", "hw2"}

Statuses == {"approved", "reviewing", "rejected", "unknown"}

\* The elements of a homeworks list: dicts, and a JSON number (which has no
\* keys and on which Python's `in` raises TypeError).
Homeworks ==
    {h \in [type : {"dict", "int"},
            keys : SUBSET {"homework_name", "status"},
            homework_name : Names \cup {""},
            status : Statuses \cup {""}] :
        /\ ("homework_name" \in h.keys) = (h.homework_name # "")
        /\ ("status" \in h.keys) = (h.status # "")
        /\ h.type = "int" => h.keys = {}}

\* Elements after the first one of a homeworks list: a well-formed record
\* and a dict with no keys.
LaterHomeworks ==
    {h \in Homeworks :
        \/ h.type = "dict" /\ h.keys = {}
        \/ h.homework_name = "hw2" /\ h.status = "approved"}

HomeworkLists ==
    {<<>>} \cup
    UNION {{<<h>> \o t : h \in Homeworks, t \in [1 .. n -> LaterHomeworks]} :
           n \in 0 .. MaxHw - 1}

\* The value under the key "homeworks": a list, or something that is not one.
HomeworksValues ==
    {[isList |-> FALSE, items |-> <<>>]} \cup
    {[isList |-> TRUE, items |-> l] : l \in HomeworkLists}

\* What response.json() can return: a dict, or a JSON value that is not a dict.
Payloads ==
    {r \in [isDict : BOOLEAN,
            keys : SUBSET {"homeworks", "current_date"},
            homeworks : HomeworksValues,
            current_date : Dates \cup {0}] :
        /\ ~r.isDict => r.keys = {}
        /\ "homeworks" \notin r.keys =>
               r.homeworks = [isList |-> FALSE, items |-> <<>>]
        /\ ("current_date" \in r.keys) = (r.current_date # 0)}

NoPayload ==
    [isDict |-> FALSE, keys |-> {},
     homeworks |-> [isList |-> FALSE, items |-> <<>>], current_date |-> 0]

StatusCodes == {200, 404, 503}

\* What requests.get and response.json() do on one call: the request raises
\* a RequestException, raises something else, or returns a response with a
\* status code and a body that decodes to a payload or does not decode (the
\* body of a response whose status is not 200 is never read).
HttpOutcomes ==
    {[how |-> "RequestException", status_code |-> 0, decodes |-> FALSE,
      json |-> NoPayload],
     [how |-> "Exception", status_code |-> 0, decodes |-> FALSE,
      json |-> NoPayload]} \cup
    {[how |-> "response", status_code |-> c, decodes |-> FALSE,
      json |-> NoPayload] : c \in StatusCodes} \cup
    {[how |-> "response", status_code |-> 200, decodes |-> TRUE, json |-> p] :
        p \in Payloads}

\* What bot.send_message does on one call: returns, or raises.
SendOutcomes == {"ok", "raises"}

\* ----------------------------------------------------------- the functions
\* check_tokens(): the `return True` of line 41 is in the body of the for
\* loop, so the loop ends in its first iteration, on PRACTICUM_TOKEN.
check_tokens(e) ==
    LET variables == <<e.PRACTICUM_TOKEN, e.TELEGRAM_TOKEN, e.TELEGRAM_CHAT_ID>>
        variable == variables[1]
    IN  IF variable = "None" THEN FALSE
        ELSE IF variable = "" THEN FALSE
        ELSE TRUE

\* send_message(bot, message): any failure of bot.send_message is raised as
\* MessageSentError.
send_message(m, outcome) ==
    IF outcome = "raises"
    THEN Raise(Exc("MessageSentError",
                   <<"Error while sending the message - ", "send failed">>))
    ELSE Return(<<>>)

\* get_api_answer where an undecodable body is a RequestError as well.
get_api_answer_one_kind(ts, o) ==
    IF o.how = "RequestException"
    THEN Raise(Exc("RequestError", <<"Request error - ", "no connection">>))
    ELSE IF o.how = "Exception"
    THEN Raise(Exc("RequestError",
                   <<"Failure in the request to the endpoint - ", "failure">>))
    ELSE IF o.status_code # 200
    THEN Raise(Exc("RequestError",
                   <<"Request status - ", ToString(o.status_code)>>))
    ELSE IF ~o.decodes
    THEN Raise(Exc("RequestError", <<"Format error - ", "not JSON">>))
    ELSE Return(o.json)

\* get_api_answer(timestamp): one GET with from_date = timestamp.
get_api_answer(ts, o) ==
    IF o.how = "RequestException"
    THEN Raise(Exc("RequestError", <<"Request error - ", "no connection">>))
    ELSE IF o.how = "Exception"
    THEN Raise(Exc("RequestError",
                   <<"Failure in the request to the endpoint - ", "failure">>))
    ELSE IF o.status_code # 200
    THEN Raise(Exc("RequestError",
                   <<"Request status - ", ToString(o.status_code)>>))
    ELSE IF ~o.decodes
    THEN Raise(Exc("JsonFormatError", <<"Format error - ", "not JSON">>))
    ELSE Return(o.json)

\* check_response where an empty homeworks list is an error.
check_response_empty_raises(r) ==
    IF ~r.isDict
    THEN Raise(Exc("TypeError",
                   <<"The structure of the API answer is not the expected one">>))
    ELSE IF "homeworks" \notin r.keys
    THEN Raise(Exc("KeyError", <<"The API answer has no key \"homeworks\"">>))
    ELSE IF ~r.homeworks.isList
    THEN Raise(Exc("TypeError", <<"The key \"homeworks\" is not a list">>))
    ELSE IF r.homeworks.items = <<>>
    THEN Raise(Exc("IndexError", <<"list index out of range">>))
    ELSE IF "current_date" \notin r.keys
    THEN Raise(Exc("KeyError", <<"The API answer has no key \"current_date\"">>))
    ELSE Return(r)

\* check_response without the check of lines 89-90.
check_response_no_date_check(r) ==
    IF ~r.isDict
    THEN Raise(Exc("TypeError",
                   <<"The structure of the API answer is not the expected one">>))
    ELSE IF "homeworks" \notin r.keys
    THEN Raise(Exc("KeyError", <<"The API answer has no key \"homeworks\"">>))
    ELSE IF ~r.homeworks.isList
    THEN Raise(Exc("TypeError", <<"The key \"homeworks\" is not a list">>))
    ELSE Return(r)

\* check_response(response)
check_response(r) ==
    IF ~r.isDict
    THEN Raise(Exc("TypeError",
                   <<"The structure of the API answer is not the expected one">>))
    ELSE IF "homeworks" \notin r.keys
    THEN Raise(Exc("KeyError", <<"The API answer has no key \"homeworks\"">>))
    ELSE IF ~r.homeworks.isList
    THEN Raise(Exc("TypeError", <<"The key \"homeworks\" is not a list">>))
    ELSE IF "current_date" \notin r.keys
    THEN Raise(Exc("KeyError", <<"The API answer has no key \"current_date\"">>))
    ELSE Return(r)

\* parse_status where an undocumented status is a KeyError of the table.
parse_status_table_key_error(h) ==
    IF h.type = "int"
    THEN Raise(Exc("TypeError", <<"argument of type 'int' is not iterable">>))
    ELSE IF "homework_name" \notin h.keys
    THEN Raise(Exc("KeyError", <<"The key \"homework_name\" is missing">>))
    ELSE IF "status" \notin h.keys
    THEN Raise(Exc("KeyError", <<"The key \"status\" is missing">>))
    ELSE IF h.status \notin DOMAIN HOMEWORK_VERDICTS
    THEN Raise(Exc("KeyError", <<h.status>>))
    ELSE Return(<<"The check status of the work \"">> \o <<h.homework_name>>
                \o <<"\". ">> \o <<HOMEWORK_VERDICTS[h.status]>>)

\* parse_status(homework)
parse_status(h) ==
    IF h.type = "int"
    THEN Raise(Exc("TypeError", <<"argument of type 'int' is not iterable">>))
    ELSE IF "homework_name" \notin h.keys
    THEN Raise(Exc("KeyError", <<"The key \"homework_name\" is missing">>))
    ELSE IF "status" \notin h.keys
    THEN Raise(Exc("KeyError", <<"The key \"status\" is missing">>))
    ELSE IF h.status \notin DOMAIN HOMEWORK_VERDICTS
    THEN Raise(Exc("StatusHomeworkError", <<"Undocumented homework status">>))
    ELSE Return(<<"The check status of the work \"">> \o <<h.homework_name>>
                \o <<"\". ">> \o <<HOMEWORK_VERDICTS[h.status]>>)

\* An empty text for the answer with an empty homeworks list.
StatusUnchanged_empty == <<>>

\* The candidate message of an answer with an empty homeworks list.
StatusUnchanged == <<"The status of the work has not changed">>

\* Lines 121-124 of main: the message of a checked answer.
Candidate(good_response) ==
    IF good_response.homeworks.items # <<>>
    THEN parse_status(good_response.homeworks.items[1])
    ELSE Return(StatusUnchanged)

\* Line 125 left out: the timestamp stays.
NextTimestamp_kept(good_response, ts) == ts

\* Line 125 of main: the timestamp of the next poll.
NextTimestamp(good_response, ts) == good_response.current_date

\* Line 126 without the comparison: every candidate is sent.
IsNew_always(m, last) == TRUE

\* Line 126 of main: a message is sent when it is not the last one sent.
IsNew(m, last) == m # last

\* Line 135 of main: the text that reports a failure to the chat.
Diagnostic(e) == <<"Program failure: ">> \o e.text

\* ------------------------------------------------------------------- state
VARIABLES
    env,            \* the three environment variables
    pc,             \* where main() is
    timestamp,      \* main's timestamp
    bot_message,    \* main's bot_message
    error_message,  \* main's error_message
    response,       \* main's response (good_response is the same object)
    message,        \* main's message
    exc,            \* the exception in flight, NoExc when there is none
    polls,          \* history: number of get_api_answer calls
    from_date,      \* history: the from_date of the last get_api_answer call
    good_date,      \* history: current_date of the last answer that passed
                    \*          check_response
    slept,          \* history: the seconds spent in time.sleep
    failure,        \* history: the exception the cycle's try body raised
    eval_date,      \* history: current_date of the last answer that gave a
                    \*          candidate message
    trace,          \* history: the calls of the current cycle, in order
    raised_in,      \* history: the call of the current cycle that raised
    sent,           \* history: the text of the cycle's last send_message call
    bot_before,     \* history: bot_message when the cycle began
    prev,           \* history: the previous cycle
    http,           \* history: what the request of the current cycle did
    last_sent       \* history: the text of the last send_message call

vars ==
    <<env, pc, timestamp, bot_message, error_message, response, message, exc,
      polls, from_date, good_date, slept, trace, raised_in, sent, bot_before,
      prev, failure, eval_date, http, last_sent>>

\* No request was made yet in the current cycle.
NoOutcome ==
    [how |-> "none", status_code |-> 0, decodes |-> FALSE, json |-> NoPayload]

Calls(name) == Cardinality({i \in DOMAIN trace : trace[i] = name})

NoCycle == [message |-> <<>>, sends |-> 0, delivered |-> FALSE]

\* The loop has not been entered: module level and lines 109-116 of main.
Init ==
    /\ env \in [EnvVars -> EnvValues]
    /\ pc = "start"
    /\ timestamp = 0
    /\ bot_message = <<>>
    /\ error_message = <<>>
    /\ response = NoPayload
    /\ message = <<>>
    /\ exc = NoExc
    /\ polls = 0
    /\ from_date = 0
    /\ good_date = 0
    /\ slept = 0
    /\ failure = NoExc
    /\ eval_date = 0
    /\ trace = <<>>
    /\ raised_in = ""
    /\ sent = <<>>
    /\ bot_before = <<>>
    /\ prev = NoCycle
    /\ http = NoOutcome
    /\ last_sent = <<>>

\* ----------------------------------------------------------------- actions
\* Lines 111-112: the start-up check fails and main calls sys.exit.
MainExit ==
    /\ pc = "start"
    /\ ~check_tokens(env)
    /\ pc' = "exited"
    /\ UNCHANGED <<env, timestamp, bot_message, error_message, response,
                   message, exc, polls, from_date, good_date, slept, trace,
                   raised_in, sent, bot_before, prev, failure, eval_date,
                   http, last_sent>>

\* Lines 113-116: the bot is built and the loop's variables are set.
MainEnter ==
    /\ pc = "start"
    /\ check_tokens(env)
    /\ pc' = "poll"
    /\ timestamp' = StartTime
    /\ bot_message' = <<>>
    /\ error_message' = <<>>
    /\ UNCHANGED <<env, response, message, exc, polls, from_date, good_date,
                   slept, trace, raised_in, sent, bot_before, prev, failure,
                   eval_date,
                   http, last_sent>>

\* Line 113: telegram.Bot is a library class; given a token that is None or
\* empty its constructor may raise, and the exception leaves main.
MainBotRaises ==
    /\ pc = "start"
    /\ check_tokens(env)
    /\ env.TELEGRAM_TOKEN \in {"None", ""}
    /\ pc' = "raised"
    /\ exc' = Exc("InvalidToken", <<"Invalid token">>)
    /\ UNCHANGED <<env, timestamp, bot_message, error_message, response,
                   message, polls, from_date, good_date, slept, trace,
                   raised_in, sent, bot_before, prev, failure, eval_date,
                   http, last_sent>>

\* A call of the try body raised e: control goes to the except clauses.
Raised(call, e) ==
    /\ exc' = e
    /\ failure' = e
    /\ raised_in' = call
    /\ pc' = "except"

\* Line 119: response = get_api_answer(timestamp)
GetApiAnswer ==
    /\ pc = "poll"
    /\ polls < MaxCycles
    /\ \E o \in HttpOutcomes :
         LET r == get_api_answer(timestamp, o) IN
         /\ polls' = polls + 1
         /\ from_date' = timestamp
         /\ http' = o
         /\ trace' = <<"poll">>
         /\ sent' = <<>>
         /\ bot_before' = bot_message
         /\ IF r.exc = NoExc
            THEN /\ response' = r.value
                 /\ pc' = "check"
                 /\ UNCHANGED <<exc, failure, raised_in>>
            ELSE /\ Raised("get_api_answer", r.exc)
                 /\ UNCHANGED response
    /\ UNCHANGED <<env, timestamp, bot_message, error_message, message,
                   good_date, slept, prev, eval_date,
                   last_sent>>

\* Line 120: good_response = check_response(response)
CheckResponse ==
    /\ pc = "check"
    /\ LET r == check_response(response) IN
         /\ trace' = Append(trace, "check")
         /\ IF r.exc = NoExc
            THEN /\ good_date' = r.value.current_date
                 /\ pc' = "evaluate"
                 /\ UNCHANGED <<exc, failure, raised_in>>
            ELSE /\ Raised("check_response", r.exc)
                 /\ UNCHANGED good_date
    /\ UNCHANGED <<env, timestamp, bot_message, error_message, response,
                   message, polls, from_date, slept, sent, bot_before, prev,
                   eval_date,
                   http, last_sent>>

\* Lines 121-125 with the timestamp taken before parse_status is called.
Evaluate_cursor_first ==
    /\ pc = "evaluate"
    /\ LET r == Candidate(response) IN
         /\ trace' = Append(trace, "evaluate")
         /\ IF r.exc = NoExc
            THEN /\ message' = r.value
                 /\ timestamp' = NextTimestamp(response, timestamp)
                 /\ eval_date' = response.current_date
                 /\ pc' = "notify"
                 /\ UNCHANGED <<exc, failure, raised_in>>
            ELSE /\ Raised("parse_status", r.exc)
                 /\ timestamp' = NextTimestamp(response, timestamp)
                 /\ UNCHANGED <<message, eval_date>>
    /\ UNCHANGED <<env, bot_message, error_message, response, polls,
                   from_date, good_date, slept, sent, bot_before, prev,
                   http, last_sent>>

\* Lines 121-125: the candidate message, then the new timestamp.
Evaluate ==
    /\ pc = "evaluate"
    /\ LET r == Candidate(response) IN
         /\ trace' = Append(trace, "evaluate")
         /\ IF r.exc = NoExc
            THEN /\ message' = r.value
                 /\ timestamp' = NextTimestamp(response, timestamp)
                 /\ eval_date' = response.current_date
                 /\ pc' = "notify"
                 /\ UNCHANGED <<exc, failure, raised_in>>
            ELSE /\ Raised("parse_status", r.exc)
                 /\ UNCHANGED <<message, timestamp, eval_date>>
    /\ UNCHANGED <<env, bot_message, error_message, response, polls,
                   from_date, good_date, slept, sent, bot_before, prev,
                   http, last_sent>>

\* Lines 126-128 with a second send_message call after a failed one.
Notify_resends ==
    /\ pc = "notify"
    /\ IF IsNew(message, bot_message)
       THEN \E outcome \in SendOutcomes :
              LET r == send_message(message, outcome) IN
              /\ trace' = IF r.exc = NoExc THEN Append(trace, "send")
                          ELSE trace \o <<"send", "send">>
              /\ sent' = message
              /\ last_sent' = message
              /\ IF r.exc = NoExc
                 THEN /\ bot_message' = message
                      /\ pc' = "finally"
                      /\ UNCHANGED <<exc, failure, raised_in>>
                 ELSE /\ Raised("send_message", r.exc)
                      /\ UNCHANGED bot_message
       ELSE /\ pc' = "finally"
            /\ UNCHANGED <<trace, sent, last_sent, bot_message, exc, failure,
                           raised_in>>
    /\ UNCHANGED <<env, timestamp, error_message, response, message, polls,
                   from_date, good_date, slept, bot_before, prev, eval_date,
                   http>>

\* Lines 126-128 where a delivered status message is remembered as the last
\* error message as well.
Notify_marks_error ==
    /\ pc = "notify"
    /\ IF IsNew(message, bot_message)
       THEN \E outcome \in SendOutcomes :
              LET r == send_message(message, outcome) IN
              /\ trace' = Append(trace, "send")
              /\ sent' = message
              /\ last_sent' = message
              /\ IF r.exc = NoExc
                 THEN /\ bot_message' = message
                      /\ error_message' = message
                      /\ pc' = "finally"
                      /\ UNCHANGED <<exc, failure, raised_in>>
                 ELSE /\ Raised("send_message", r.exc)
                      /\ UNCHANGED <<bot_message, error_message>>
       ELSE /\ pc' = "finally"
            /\ UNCHANGED <<trace, sent, last_sent, bot_message, exc, failure,
                           raised_in, error_message>>
    /\ UNCHANGED <<env, timestamp, response, message, polls,
                   from_date, good_date, slept, bot_before, prev, eval_date,
                   http>>

\* Lines 126-128 where a failed send puts the timestamp back.
Notify_rolls_back ==
    /\ pc = "notify"
    /\ IF IsNew(message, bot_message)
       THEN \E outcome \in SendOutcomes :
              LET r == send_message(message, outcome) IN
              /\ trace' = Append(trace, "send")
              /\ sent' = message
              /\ last_sent' = message
              /\ IF r.exc = NoExc
                 THEN /\ bot_message' = message
                      /\ UNCHANGED timestamp
                      /\ pc' = "finally"
                      /\ UNCHANGED <<exc, failure, raised_in>>
                 ELSE /\ Raised("send_message", r.exc)
                      /\ timestamp' = from_date
                      /\ UNCHANGED bot_message
       ELSE /\ pc' = "finally"
            /\ UNCHANGED <<trace, sent, last_sent, bot_message, exc, failure,
                           raised_in, timestamp>>
    /\ UNCHANGED <<env, error_message, response, message, polls,
                   from_date, good_date, slept, bot_before, prev, eval_date,
                   http>>

\* Lines 126-128: the message is sent if it is new, and then remembered.
Notify ==
    /\ pc = "notify"
    /\ IF IsNew(message, bot_message)
       THEN \E outcome \in SendOutcomes :
              LET r == send_message(message, outcome) IN
              /\ trace' = Append(trace, "send")
              /\ sent' = message
              /\ last_sent' = message
              /\ IF r.exc = NoExc
                 THEN /\ bot_message' = message
                      /\ pc' = "finally"
                      /\ UNCHANGED <<exc, failure, raised_in>>
                 ELSE /\ Raised("send_message", r.exc)
                      /\ UNCHANGED bot_message
       ELSE /\ pc' = "finally"
            /\ UNCHANGED <<trace, sent, last_sent, bot_message, exc, failure,
                           raised_in>>
    /\ UNCHANGED <<env, timestamp, error_message, response, message, polls,
                   from_date, good_date, slept, bot_before, prev, eval_date,
                   http>>

\* Line 129: an exception raised in the try body is matched against the
\* first except clause, whose expression is an INSTANCE of MessageSentError
\* and not a class.  Python refuses the match with a TypeError, which
\* replaces the exception in flight (and keeps it as its __context__, here
\* failure); the clause of lines 133-138 is then never tried, so its body
\* never runs.
ExceptMatch ==
    /\ pc = "except"
    /\ exc' = Exc("TypeError",
                  <<"catching classes that do not inherit from BaseException is not allowed">>)
    /\ pc' = "finally"
    /\ UNCHANGED <<env, timestamp, bot_message, error_message, response,
                   message, polls, from_date, good_date, slept, trace,
                   raised_in, sent, bot_before, prev, failure, eval_date,
                   http, last_sent>>

\* The sleep at the end of the try body and not in a finally block: a cycle
\* that raised does not sleep.
Sleep_in_try ==
    /\ pc = "finally"
    /\ slept' = IF exc = NoExc THEN slept + RETRY_PERIOD ELSE slept
    /\ IF exc = NoExc
       THEN /\ pc' = "poll"
            /\ prev' = [message |-> message,
                        sends |-> Calls("send"),
                        delivered |-> Calls("send") = 1]
            /\ response' = NoPayload
            /\ http' = NoOutcome
            /\ trace' = <<>>
            /\ sent' = <<>>
            /\ from_date' = 0
            /\ bot_before' = <<>>
       ELSE /\ pc' = "raised"
            /\ trace' = Append(trace, "sleep")
            /\ UNCHANGED <<prev, response, http, sent, from_date,
                           bot_before>>
    /\ UNCHANGED <<env, timestamp, bot_message, error_message, message, exc,
                   polls, good_date, raised_in, failure, eval_date,
                   last_sent>>

\* Lines 139-140: time.sleep(RETRY_PERIOD); then the exception in flight, if
\* there is one, leaves main and ends the process; otherwise the loop goes
\* round.  The answer of the cycle is dead from here on (line 119 assigns
\* response before anything reads it again), so the model forgets it, and
\* the history of the cycle is moved to prev when the next one begins.
Sleep ==
    /\ pc = "finally"
    /\ slept' = slept + RETRY_PERIOD
    /\ IF exc = NoExc
       THEN /\ pc' = "poll"
            /\ prev' = [message |-> message,
                        sends |-> Calls("send"),
                        delivered |-> Calls("send") = 1]
            /\ response' = NoPayload
            /\ http' = NoOutcome
            /\ trace' = <<>>
            /\ sent' = <<>>
            /\ from_date' = 0
            /\ bot_before' = <<>>
       ELSE /\ pc' = "raised"
            /\ trace' = Append(trace, "sleep")
            /\ UNCHANGED <<prev, response, http, sent, from_date,
                           bot_before>>
    /\ UNCHANGED <<env, timestamp, bot_message, error_message, message, exc,
                   polls, good_date, raised_in, failure, eval_date,
                   last_sent>>

Next ==
    \/ MainExit
    \/ MainEnter
    \/ MainBotRaises
    \/ GetApiAnswer
    \/ CheckResponse
    \/ Evaluate
    \/ Notify
    \/ ExceptMatch
    \/ Sleep

Spec == Init /\ [][Next]_vars

\* ------------------------------------------------------------------ claims
\* The try body of the current cycle raised in polling or evaluation.
OperationalFailure ==
    raised_in \in {"get_api_answer", "check_response", "parse_status"}

\* The current cycle produced a candidate message and went through the
\* comparison of line 126.
NotifyDone ==
    /\ Calls("evaluate") = 1
    /\ raised_in \in {"", "send_message"}
    /\ pc \in {"except", "finally", "raised"}

\* C1: once the loop is entered no failure of a cycle terminates the
\* process: main is never left by an exception after a poll was issued.
C1_NoFailureEndsTheLoop == polls > 0 => pc # "raised"

\* C2: a cycle that fails in polling or evaluation sends the diagnostic of
\* its error through send_message when that text differs from the last
\* error message sent, remembers it, and sends nothing when it is the same.
C2_DiagnosticSentOnNewError ==
    (OperationalFailure /\ pc \in {"finally", "raised"}) =>
        /\ error_message = Diagnostic(failure)
        /\ \/ Calls("send") = 0
           \/ Calls("send") = 1 /\ sent = Diagnostic(failure)

\* C3: a MessageSentError raised by send_message is only logged: it causes
\* no second send_message call in its cycle and it never leaves main.
C3_DeliveryFailureIsLoggedOnly ==
    raised_in = "send_message" =>
        /\ Calls("send") = 1
        /\ exc \in {NoExc, failure}
        /\ pc # "raised"

\* C4: in every cycle that produced a candidate message send_message is
\* called iff the candidate differs from bot_message as the cycle found it,
\* and then with the candidate as its text; so a cycle whose candidate is
\* the one the previous cycle delivered sends nothing, and the two cycles
\* together sent exactly one notification.
C4_InfoDedup ==
    NotifyDone =>
        /\ Calls("send") = (IF message # bot_before THEN 1 ELSE 0)
        /\ Calls("send") = 1 => sent = message
        /\ (polls > 1 /\ prev.delivered /\ prev.message = message) =>
               prev.sends + Calls("send") = 1

\* C4 witness: the second of two cycles with the same candidate, the first of
\* which delivered it, has sent nothing.
C4_Witness ==
    /\ NotifyDone
    /\ polls > 1
    /\ prev.delivered
    /\ prev.message = message
    /\ Calls("send") = 0
    /\ pc = "finally"

\* The current cycle produced a candidate message (lines 121-125 ran through).
Evaluated == Calls("evaluate") = 1 /\ raised_in \in {"", "send_message"}

\* get_api_answer of the current cycle was called and check_response was not
\* yet.
JustPolled == Calls("poll") = 1 /\ Calls("check") = 0

\* C5 as stated: the from_date of a poll is the current_date of the last
\* answer that passed check_response (the start-up time in the first poll),
\* and a cycle whose answer passed check_response ends with the cursor at
\* that answer's current_date.
C5_CursorFollowsCheckedAnswer ==
    /\ JustPolled =>
           from_date = (IF polls = 1 THEN StartTime ELSE good_date)
    /\ (Calls("check") = 1 /\ raised_in # "check_response"
            /\ pc \in {"finally", "raised"}) =>
           timestamp = good_date

\* C5 amended: the from_date of a poll is the current_date of the last
\* answer that gave a candidate message (the start-up time in the first
\* poll), and every cycle that gave a candidate message has the cursor at
\* its answer's current_date, with a record or an empty list, with a send,
\* a failed send or none.
C5_CursorFollowsEvaluatedAnswer ==
    /\ JustPolled =>
           from_date = (IF polls = 1 THEN StartTime ELSE eval_date)
    /\ Evaluated =>
           /\ timestamp = response.current_date
           /\ eval_date = response.current_date

\* C5 witness: the third poll asks for the current_date of the second
\* answer, which had an empty list and caused no send.
C5_Witness ==
    /\ JustPolled
    /\ polls = 3
    /\ prev.message = StatusUnchanged
    /\ prev.sends = 0
    /\ from_date = 1
    /\ from_date = eval_date

AllSet(e) == \A v \in EnvVars : e[v] = "set"

LoopEntered ==
    \/ polls > 0
    \/ pc \in {"poll", "check", "evaluate", "notify", "except", "finally"}

\* C6: for every combination of the three configuration values, main enters
\* the loop iff all three are present and non-empty, and has exited by
\* sys.exit iff check_tokens found one missing.
C6_LoopOnlyWhenConfigured ==
    /\ pc = "exited" => ~AllSet(env)
    /\ LoopEntered => AllSet(env)
    /\ (pc # "start" /\ AllSet(env)) => LoopEntered

\* C7: after send_message failed on the status message m of a cycle,
\* bot_message is not m and the loop goes on to its next poll, where m is
\* again a message to send.
C7_FailedSendIsRetried ==
    [][(pc = "finally" /\ raised_in = "send_message") =>
           (pc' = "poll" /\ bot_message' # message /\ IsNew(message, bot_message'))]_vars

\* The answer of the current cycle has an empty list under "homeworks".
EmptyHomeworks ==
    /\ response.isDict
    /\ "homeworks" \in response.keys
    /\ response.homeworks.isList
    /\ response.homeworks.items = <<>>

\* What C8 says of a cycle whose answer went through check_response.
NoRecordOutcome ==
    /\ raised_in \notin {"check_response", "parse_status"}
    /\ Calls("evaluate") = 1 =>
           /\ message = StatusUnchanged
           /\ timestamp = response.current_date

\* C8 as stated: every answer with an empty homeworks list passes
\* check_response, gives the 'status unchanged' candidate and moves the
\* cursor to its current_date.
C8_EmptyListIsNoError ==
    (EmptyHomeworks /\ Calls("check") = 1) => NoRecordOutcome

\* C8 amended: every answer with an empty homeworks list and a current_date
\* key passes check_response, gives the 'status unchanged' candidate and
\* moves the cursor to its current_date.
C8_EmptyListWithDateIsNoError ==
    (EmptyHomeworks /\ "current_date" \in response.keys /\ Calls("check") = 1)
        => NoRecordOutcome

\* C8 witness: an answer with an empty list was evaluated and moved the
\* cursor off the from_date of its poll.
C8_Witness ==
    /\ EmptyHomeworks
    /\ pc = "notify"
    /\ message = StatusUnchanged
    /\ timestamp = response.current_date
    /\ timestamp # from_date

\* check_response of the current cycle ran on an answer without current_date.
CheckedWithoutDate == Calls("check") = 1 /\ "current_date" \notin response.keys

\* C9 as stated: every answer without the current_date key fails in
\* check_response with a KeyError.
C9_NoDateIsKeyError ==
    CheckedWithoutDate =>
        raised_in = "check_response" /\ failure.kind = "KeyError"

\* C9 amended: every answer without the current_date key fails in
\* check_response: with a TypeError when it is not a dict or its homeworks
\* value is not a list, with a KeyError otherwise.
C9_NoDateIsKeyOrTypeError ==
    CheckedWithoutDate =>
        /\ raised_in = "check_response"
        /\ failure.kind =
               (IF \/ ~response.isDict
                   \/ "homeworks" \in response.keys /\ ~response.homeworks.isList
                THEN "TypeError" ELSE "KeyError")

\* C9 witness: a dict with a homeworks list and no current_date failed with
\* the KeyError of line 90.
C9_Witness ==
    /\ CheckedWithoutDate
    /\ response.isDict
    /\ "homeworks" \in response.keys
    /\ response.homeworks.isList
    /\ raised_in = "check_response"
    /\ failure = Exc("KeyError", <<"The API answer has no key \"current_date\"">>)

\* parse_status of the current cycle ran on the first homework of the answer.
Parsed ==
    /\ Calls("evaluate") = 1
    /\ response.homeworks.items # <<>>

FirstHomework == response.homeworks.items[1]

\* What C10 says of the homework parse_status ran on.
ParseOutcome ==
    IF FirstHomework.status \in {"approved", "reviewing", "rejected"}
    THEN /\ raised_in # "parse_status"
         /\ Len(message) = 4
         /\ message[2] = FirstHomework.homework_name
         /\ message[4] = HOMEWORK_VERDICTS[FirstHomework.status]
    ELSE /\ raised_in = "parse_status"
         /\ failure.kind = "StatusHomeworkError"
         /\ Calls("send") = 0

\* C10 as stated: parse_status fails with StatusHomeworkError on every
\* homework whose status is not approved, reviewing or rejected, and returns
\* the sentence with the name and the verdict of the status otherwise.
C10_VerdictOrUnknownStatus ==
    (Parsed /\ "status" \in FirstHomework.keys) => ParseOutcome

\* C10 amended: the same, for every homework that has the keys homework_name
\* and status.
C10_VerdictOrUnknownStatusOfRecord ==
    (Parsed /\ FirstHomework.keys = {"homework_name", "status"}) => ParseOutcome

\* C10 witness: a homework with a name and an undocumented status made
\* parse_status raise StatusHomeworkError.
C10_Witness ==
    /\ Parsed
    /\ FirstHomework.keys = {"homework_name", "status"}
    /\ FirstHomework.status = "unknown"
    /\ raised_in = "parse_status"
    /\ failure.kind = "StatusHomeworkError"

\* The current cycle has polled and has not slept yet.
InCycle == pc \in {"check", "evaluate", "notify", "except", "finally"}

\* The current cycle is over: the loop is back at line 119, or main was left
\* from the loop.
CycleOver == polls > 0 /\ pc \in {"poll", "raised"}

\* C11: every cycle ends with one sleep of RETRY_PERIOD seconds, on the
\* success path, the skip-send path and every error path: up to the n-th
\* poll and through its cycle the loop has slept n - 1 times, once the cycle
\* is over n times, so one sleep lies between two consecutive polls.
C11_OneSleepPerCycle ==
    /\ RETRY_PERIOD = 600
    /\ InCycle => slept = RETRY_PERIOD * (polls - 1)
    /\ CycleOver => slept = RETRY_PERIOD * polls

\* C11 witness: the third poll was issued after two sleeps, the second of
\* them at the end of a cycle that sent nothing.
C11_Witness ==
    /\ JustPolled
    /\ polls = 3
    /\ prev.sends = 0
    /\ slept = 2 * RETRY_PERIOD

\* The place of a call in a cycle.
Rank(call) ==
    CASE call = "poll" -> 1
      [] call = "check" -> 2
      [] call = "evaluate" -> 3
      [] call = "send" -> 4
      [] call = "sleep" -> 5

\* C12: the calls of a cycle come in the order poll, evaluation (check and
\* candidate), notification, sleep, each at most once (so send_message is
\* called at most once), none without the ones before it except the sleep,
\* which comes last on every path; nothing of a cycle is left when the loop
\* is back at the poll.
C12_CycleIsSequential ==
    /\ \A i, j \in DOMAIN trace : i < j => Rank(trace[i]) < Rank(trace[j])
    /\ Calls("send") <= 1
    /\ Calls("send") = 1 => Calls("evaluate") = 1
    /\ Calls("evaluate") = 1 => Calls("check") = 1
    /\ Calls("check") = 1 => Calls("poll") = 1
    /\ InCycle => (trace[1] = "poll" /\ Calls("sleep") = 0)
    /\ (pc = "raised" /\ polls > 0) =>
           (trace[1] = "poll" /\ trace[Len(trace)] = "sleep")
    /\ pc = "poll" => (trace = <<>> /\ slept = RETRY_PERIOD * polls)

\* C12 witness: a cycle polled, checked, evaluated, called send_message
\* once, which failed, and slept.
C12_Witness ==
    /\ trace = <<"poll", "check", "evaluate", "send", "sleep">>
    /\ raised_in = "send_message"

\* What the request of a cycle came to: a transport failure, a status that
\* is not 200, a body that does not decode, or an answer.
Mode(o) ==
    IF o.how # "response" THEN "transport"
    ELSE IF o.status_code # 200 THEN "status"
    ELSE IF ~o.decodes THEN "body"
    ELSE "ok"

\* C13 as stated: get_api_answer raises nothing on a 200 answer whose body
\* decodes, and the error kind it raises in one failure mode is raised in no
\* other failure mode.
C13_ThreeErrorKinds ==
    JustPolled =>
        /\ (Mode(http) = "ok") = (raised_in = "")
        /\ \A o \in HttpOutcomes :
               (Mode(o) \notin {"ok", Mode(http)} /\ Mode(http) # "ok") =>
                   get_api_answer(from_date, o).exc.kind # failure.kind

\* C13 amended: a transport failure and a status that is not 200 both raise
\* RequestError, with different texts; a body that does not decode raises
\* JsonFormatError; a 200 answer whose body decodes raises nothing and is
\* returned.
C13_TwoErrorKinds ==
    JustPolled =>
        /\ Mode(http) = "transport" =>
               /\ raised_in = "get_api_answer"
               /\ failure.kind = "RequestError"
               /\ failure.text[1] # "Request status - "
        /\ Mode(http) = "status" =>
               /\ raised_in = "get_api_answer"
               /\ failure =
                      Exc("RequestError",
                          <<"Request status - ", ToString(http.status_code)>>)
        /\ Mode(http) = "body" =>
               /\ raised_in = "get_api_answer"
               /\ failure.kind = "JsonFormatError"
        /\ Mode(http) = "ok" =>
               /\ raised_in = ""
               /\ response = http.json

\* C13 witness: a 503 answer made get_api_answer raise the RequestError that
\* carries the status.
C13_Witness ==
    /\ JustPolled
    /\ http.status_code = 503
    /\ failure = Exc("RequestError", <<"Request status - ", "503">>)

\* C14: when homeworks is not empty the cycle's outcome is that of
\* parse_status on the first element, whatever follows it; a first element
\* without homework_name or status makes the cycle fail with KeyError and
\* send no status message.
C14_FirstHomeworkDecides ==
    Parsed =>
        /\ FirstHomework.keys # {"homework_name", "status"} =>
               /\ raised_in = "parse_status"
               /\ failure.kind = "KeyError"
               /\ Calls("send") = 0
        /\ raised_in = "parse_status" =>
               failure = parse_status(FirstHomework).exc
        /\ raised_in # "parse_status" =>
               /\ parse_status(FirstHomework).exc = NoExc
               /\ message = parse_status(FirstHomework).value

\* A step in which send_message is called with text m.
SendStep(m) ==
    /\ Len(trace') = Len(trace) + 1
    /\ trace'[Len(trace')] = "send"
    /\ sent' = m

\* C15: bot_message and error_message are empty until a send of their own
\* class: bot_message changes only in a step that sends the candidate status
\* message, to that text, and leaves error_message alone; error_message
\* changes only in a step that sends a diagnostic, to that text, and leaves
\* bot_message alone; neither is ever set to the empty text.
C15_LastMessagesFollowSends ==
    [][/\ bot_message' # bot_message =>
              /\ SendStep(message)
              /\ bot_message' = message
              /\ bot_message' # <<>>
              /\ error_message' = error_message
       /\ error_message' # error_message =>
              /\ SendStep(Diagnostic(failure))
              /\ error_message' = Diagnostic(failure)
              /\ bot_message' = bot_message]_vars

\* C15 witness: a later cycle runs with the bot_message an earlier cycle
\* sent, and error_message still empty.
C15_Witness ==
    /\ polls > 1
    /\ InCycle
    /\ bot_message = prev.message
    /\ prev.delivered
    /\ error_message = <<>>

\* The current cycle, or the one main was left from.
ThisCycle == InCycle \/ (pc = "raised" /\ polls > 0)

\* C16: a cycle in which get_api_answer, check_response or parse_status
\* raised has the timestamp of its poll and the bot_message it began with;
\* the timestamp differs from the from_date of the cycle's poll only when
\* the cycle gave a candidate message.
C16_FailedCycleChangesNothing ==
    /\ OperationalFailure =>
           /\ timestamp = from_date
           /\ bot_message = bot_before
    /\ (ThisCycle /\ timestamp # from_date) => Evaluated

\* C16 witness: the second cycle got a valid answer with a new current_date
\* and a first homework of an undocumented status, and kept its timestamp
\* and the bot_message of the first cycle.
C16_Witness ==
    /\ polls = 2
    /\ raised_in = "parse_status"
    /\ failure.kind = "StatusHomeworkError"
    /\ response.current_date # from_date
    /\ timestamp = from_date
    /\ bot_message # <<>>
    /\ bot_message = bot_before

\* C17: the timestamp is the answer's current_date when the comparison of
\* line 126 is reached, and it still is after send_message failed, while
\* bot_message is the one the cycle began with.
C17_CursorAdvancedBeforeSend ==
    /\ pc = "notify" => timestamp = response.current_date
    /\ raised_in = "send_message" =>
           /\ timestamp = response.current_date
           /\ bot_message = bot_before
           /\ bot_message # sent

\* C17 witness: the send of a status-change message failed and the timestamp
\* is the new current_date, not the from_date of the poll.
C17_Witness ==
    /\ raised_in = "send_message"
    /\ response.homeworks.items # <<>>
    /\ sent = parse_status(FirstHomework).value
    /\ timestamp = response.current_date
    /\ timestamp # from_date

\* C18: no candidate message is the empty text, so the first cycle that gives
\* one calls send_message with it, the 'status unchanged' text included; and
\* the 'status unchanged' text is passed to send_message only when the
\* last text passed to it before was another one (or there was none).
C18_FirstCandidateIsSent ==
    /\ [](Evaluated => message # <<>>)
    /\ []((NotifyDone /\ prev = NoCycle) =>
              (Calls("send") = 1 /\ sent = message))
    /\ [][SendStep(StatusUnchanged) => last_sent # StatusUnchanged]_vars

\* C18 witness: the third cycle sends the 'status unchanged' text after the
\* second delivered another message.
C18_Witness ==
    /\ polls = 3
    /\ NotifyDone
    /\ Calls("send") = 1
    /\ sent = StatusUnchanged
    /\ prev.delivered
    /\ prev.message # StatusUnchanged

====
